---- MODULE Spec2Model ----
(***************************************************************************)
(* Model of analyze_retail.py: load_data followed by generate_report, the  *)
(* five analysis steps run in sequence over one in-memory table.           *)
(*                                                                         *)
(* A cell of the table is a sequence: <<>> is a missing value (NaN / NaT), *)
(* <<v>> is the value v.  A column that is not in the table holds <<>> in  *)
(* every row and is not a member of the column set.                        *)
(* Amounts are integers; cumulative percentages are compared exactly       *)
(* (c / t * 100 <= 80 is decided by cross-multiplication).                 *)
(***************************************************************************)
EXTENDS Integers, Sequences, FiniteSets

VARIABLES
    csv_cols,          \* columns of the input file
    csv_rows,          \* rows of the input file
    other_numeric,     \* number of further numeric columns of the input file
    df_cols,           \* df.columns after load_data
    df,                \* rows of df after load_data
    pc,                \* position of the script
    out,               \* what has been printed, in order
    files,             \* images written, in order: [file, step]
    monthly_sales,     \* sales_trends_analysis: series <<month, sum>>
    best_month,        \* monthly_sales.idxmax() / .max() as <<month, sum>>
    worst_month,       \* monthly_sales.idxmin() / .min() as <<month, sum>>
    customer_freq,     \* customer_behavior_analysis: series <<customer, count>>
    customer_spending, \* customer_behavior_analysis: series <<customer, sum>>
    product_revenue,   \* revenue_driver_analysis: series <<product, sum>>
    top_20_pct         \* revenue_driver_analysis: <<count>> once computed

vars == <<csv_cols, csv_rows, other_numeric, df_cols, df, pc, out, files,
          monthly_sales, best_month, worst_month, customer_freq,
          customer_spending, product_revenue, top_20_pct>>

results == <<monthly_sales, best_month, worst_month, customer_freq,
             customer_spending, product_revenue, top_20_pct>>

(***************************************************************************)
(* Bounds of the explored inputs.                                          *)
(***************************************************************************)
MaxRows == 3
MaxAmount == 2
MaxOther == 1
MaxReportRows == 1

NA == <<>>

Amounts == {NA} \cup {<<a>> : a \in -1..MaxAmount}

TrendAmounts == {NA} \cup {<<a>> : a \in -1..(MaxAmount - 1)}

\* Timestamps as <<year, month, day>>; NA is an empty field (NaT).
Dates == {<<2024, 1, 31>>, <<2024, 2, 29>>, <<2023, 3, 5>>}

Customers == {"A", "B"}

Products == {"P", "Q", "R"}

Cells(S) == {NA} \cup {<<x>> : x \in S}

(***************************************************************************)
(* Helpers on sequences and series.                                        *)
(***************************************************************************)
Range(s) == {s[i] : i \in DOMAIN s}

RECURSIVE SumSeq(_)
SumSeq(s) == IF s = <<>> THEN 0 ELSE s[1] + SumSeq(Tail(s))

\* Series.sum(): missing values are skipped, the empty sum is 0.
RECURSIVE SumCells(_)
SumCells(s) ==
    IF s = <<>> THEN 0
    ELSE (IF s[1] = NA THEN 0 ELSE s[1][1]) + SumCells(Tail(s))

Column(rows, c) == [i \in DOMAIN rows |-> rows[i][c]]

SelectRows(rows, c, k) == SelectSeq(rows, LAMBDA r : r[c] = <<k>>)

\* groupby(c): the keys are the values of column c, missing keys are dropped.
GroupKeys(rows, c) == {r[c][1] : r \in {x \in Range(rows) : x[c] # NA}}

\* df.groupby(key)[val].sum() as a function from group key to sum.
GroupSum(rows, key, val) ==
    [k \in GroupKeys(rows, key) |-> SumCells(Column(SelectRows(rows, key, k), val))]

\* The values of a series <<key, value>>, in order.
Values(s) == [i \in DOMAIN s |-> s[i][2]]

\* Every ordering of the function f as a series <<key, value>>.
Orderings(f) ==
    {[i \in 1..Cardinality(DOMAIN f) |-> <<p[i], f[p[i]]>>] :
        p \in {q \in [1..Cardinality(DOMAIN f) -> DOMAIN f] :
                  \A i, j \in DOMAIN q : i # j => q[i] # q[j]}}

\* sort_index(): ascending by key (keys are distinct, the order is unique).
SortIndex(f) ==
    CHOOSE s \in Orderings(f) :
        \A i, j \in DOMAIN s : i < j => s[i][1] < s[j][1]

SortValuesAsc(f) ==
    {s \in Orderings(f) : \A i, j \in DOMAIN s : i < j => s[i][2] <= s[j][2]}

\* sort_values(ascending=False): descending by value; the order among equal
\* values is whatever the sort produces, so every such order is possible.
SortValuesDesc(f) ==
    {s \in Orderings(f) : \A i, j \in DOMAIN s : i < j => s[i][2] >= s[j][2]}

\* Series.value_counts(): rows per value, missing values dropped, descending.
ValueCounts(rows, c) ==
    SortValuesDesc([k \in GroupKeys(rows, c) |-> Len(SelectRows(rows, c, k))])

MaxOf(s) == CHOOSE v \in Range(Values(s)) : \A w \in Range(Values(s)) : w <= v

MinOf(s) == CHOOSE v \in Range(Values(s)) : \A w \in Range(Values(s)) : v <= w

FirstIndexOf(s, v) ==
    CHOOSE i \in DOMAIN s : s[i][2] = v /\ \A j \in DOMAIN s : s[j][2] = v => i <= j

LastIndexOf(s, v) ==
    CHOOSE i \in DOMAIN s : s[i][2] = v /\ \A j \in DOMAIN s : s[j][2] = v => j <= i

IdxMaxLast(s) == s[LastIndexOf(s, MaxOf(s))][1]

\* Series.idxmax(): the label of the first occurrence of the maximum.
IdxMax(s) == s[FirstIndexOf(s, MaxOf(s))][1]

\* Series.idxmin(): the label of the first occurrence of the minimum.
IdxMin(s) == s[FirstIndexOf(s, MinOf(s))][1]

\* Series.cumsum() over the values of a series.
CumSum(s) == [i \in DOMAIN s |-> SumSeq(SubSeq(Values(s), 1, i))]

\* (c / t * 100) <= 80.  For t = 0 the quotient is inf, -inf or NaN, and only
\* -inf compares <= 80.
PctLE80(c, t) ==
    IF t > 0 THEN c * 100 <= 80 * t
    ELSE IF t < 0 THEN c * 100 >= 80 * t
    ELSE c < 0

\* cumulative_pct[cumulative_pct <= 80].count()
ParetoCount(s) ==
    Cardinality({i \in DOMAIN s : PctLE80(CumSum(s)[i], SumSeq(Values(s)))})

(***************************************************************************)
(* load_data                                                               *)
(***************************************************************************)
\* Days since 1970-01-01 of a calendar date.
DaysFromCivil(d) ==
    LET y   == IF d[2] <= 2 THEN d[1] - 1 ELSE d[1]
        era == y \div 400
        yoe == y - era * 400
        mp  == IF d[2] > 2 THEN d[2] - 3 ELSE d[2] + 9
        doy == (153 * mp + 2) \div 5 + d[3] - 1
        doe == yoe * 365 + yoe \div 4 - yoe \div 100 + doy
    IN  era * 146097 + doe - 719468

\* .dt.dayofweek: Monday is 0; 1970-01-01 was a Thursday.
DayOfWeek(d) == (DaysFromCivil(d) + 3) % 7

DerivedCols == {"Year", "Month", "Day", "DayOfWeek"}

HasTimestamp(cols) == "InvoiceDate" \in cols

\* The row of df made from a row of the file.
LoadRow(r, cols) ==
    IF HasTimestamp(cols)
    THEN [InvoiceDate |-> r.InvoiceDate,
          Year        |-> IF r.InvoiceDate = NA THEN NA ELSE <<r.InvoiceDate[1][1]>>,
          Month       |-> IF r.InvoiceDate = NA THEN NA ELSE <<r.InvoiceDate[1][2]>>,
          Day         |-> IF r.InvoiceDate = NA THEN NA ELSE <<r.InvoiceDate[1][3]>>,
          DayOfWeek   |-> IF r.InvoiceDate = NA THEN NA ELSE <<DayOfWeek(r.InvoiceDate[1])>>,
          CustomerID  |-> r.CustomerID,
          Product     |-> r.Product,
          TotalAmount |-> r.TotalAmount]
    ELSE [InvoiceDate |-> NA, Year |-> NA, Month |-> r.Month, Day |-> NA,
          DayOfWeek |-> NA, CustomerID |-> r.CustomerID, Product |-> r.Product,
          TotalAmount |-> r.TotalAmount]

LoadColsAlways(cols) == cols \cup DerivedCols

LoadCols(cols) == IF HasTimestamp(cols) THEN cols \cup DerivedCols ELSE cols

\* load_data: read_csv either fails (file missing or unparseable) or yields
\* the table, to which the calendar columns are added.
LoadData ==
    /\ pc = "load"
    /\ \E readable \in BOOLEAN :
          IF readable
          THEN /\ df_cols' = LoadCols(csv_cols)
               /\ df' = [i \in DOMAIN csv_rows |-> LoadRow(csv_rows[i], csv_cols)]
               /\ pc' = "report"
          ELSE /\ pc' = "failed"
               /\ UNCHANGED <<df_cols, df>>
    /\ out' = Append(out, "loading")
    /\ UNCHANGED <<csv_cols, csv_rows, other_numeric, files, results>>

(***************************************************************************)
(* generate_report and the five analysis steps                             *)
(***************************************************************************)
StepOrderSwapped == <<"basic", "customer", "trends", "revenue", "stat">>

\* The calls of generate_report, in order.
StepOrder == <<"basic", "trends", "customer", "revenue", "stat">>

\* Where control goes when a step returns.
AfterStep(step) ==
    LET i == CHOOSE k \in DOMAIN StepOrder : StepOrder[k] = step
    IN  IF i = Len(StepOrder) THEN "complete" ELSE StepOrder[i + 1]

MonthlyChartFile == "results/monthly_sales_trend.png"

CustomerChartFileClash == "results/monthly_sales_trend.png"

CustomerChartFile == "results/customer_spending_dist.png"

ProductChartFile == "results/top_products_revenue.png"

CorrelationChartFile == "results/correlation_matrix.png"

Saved(file, step) == [file |-> file, step |-> step]

\* generate_report: the opening banner, then the first step.
GenerateReport ==
    /\ pc = "report"
    /\ out' = Append(out, "banner_report")
    /\ pc' = StepOrder[1]
    /\ UNCHANGED <<csv_cols, csv_rows, other_numeric, df_cols, df, files, results>>

\* basic_statistics: prints only.
BasicStatistics ==
    /\ pc = "basic"
    /\ out' = out \o <<"banner_overview", "overview">>
    /\ pc' = AfterStep("basic")
    /\ UNCHANGED <<csv_cols, csv_rows, other_numeric, df_cols, df, files, results>>

TrendsGuard(cols) == "TotalAmount" \in cols /\ "Month" \in cols

\* sales_trends_analysis.  On an empty monthly series the bar chart may or may
\* not be drawn, and idxmax raises.
SalesTrends ==
    /\ pc = "trends"
    /\ IF TrendsGuard(df_cols)
       THEN LET ms == SortIndex(GroupSum(df, "Month", "TotalAmount")) IN
            /\ monthly_sales' = ms
            /\ IF ms = <<>>
               THEN /\ \E drawn \in BOOLEAN :
                          IF drawn
                          THEN /\ files' = Append(files, Saved(MonthlyChartFile, "trends"))
                               /\ out' = out \o <<"banner_trends", "monthly_sales">>
                          ELSE /\ files' = files
                               /\ out' = Append(out, "banner_trends")
                    /\ pc' = "failed"
                    /\ UNCHANGED <<best_month, worst_month>>
               ELSE /\ files' = Append(files, Saved(MonthlyChartFile, "trends"))
                    /\ best_month' = <<IdxMax(ms), MaxOf(ms)>>
                    /\ worst_month' = <<IdxMin(ms), MinOf(ms)>>
                    /\ out' = out \o <<"banner_trends", "monthly_sales",
                                       "best_month", "worst_month">>
                    /\ pc' = AfterStep("trends")
       ELSE /\ out' = Append(out, "banner_trends")
            /\ pc' = AfterStep("trends")
            /\ UNCHANGED <<files, monthly_sales, best_month, worst_month>>
    /\ UNCHANGED <<csv_cols, csv_rows, other_numeric, df_cols, df,
                   customer_freq, customer_spending, product_revenue, top_20_pct>>

CustomerGuard(cols) == "CustomerID" \in cols

SpendingGuardAlways(cols) == TRUE

SpendingGuard(cols) == "TotalAmount" \in cols

\* customer_behavior_analysis.  The histogram of an empty spending series may
\* or may not raise.
CustomerBehavior ==
    /\ pc = "customer"
    /\ IF CustomerGuard(df_cols)
       THEN \E cf \in ValueCounts(df, "CustomerID") :
            /\ customer_freq' = cf
            /\ IF SpendingGuard(df_cols)
               THEN \E cs \in SortValuesDesc(GroupSum(df, "CustomerID", "TotalAmount")) :
                    /\ customer_spending' = cs
                    /\ \E drawn \in (IF cs = <<>> THEN BOOLEAN ELSE {TRUE}) :
                          IF drawn
                          THEN /\ files' = Append(files, Saved(CustomerChartFile, "customer"))
                               /\ pc' = AfterStep("customer")
                          ELSE /\ files' = files
                               /\ pc' = "failed"
                    /\ out' = out \o <<"banner_customer", "customer_freq",
                                       "customer_spending">>
               ELSE /\ out' = out \o <<"banner_customer", "customer_freq">>
                    /\ pc' = AfterStep("customer")
                    /\ UNCHANGED <<files, customer_spending>>
       ELSE /\ out' = Append(out, "banner_customer")
            /\ pc' = AfterStep("customer")
            /\ UNCHANGED <<files, customer_freq, customer_spending>>
    /\ UNCHANGED <<csv_cols, csv_rows, other_numeric, df_cols, df, monthly_sales,
                   best_month, worst_month, product_revenue, top_20_pct>>

RevenueGuard(cols) == "Product" \in cols /\ "TotalAmount" \in cols

\* revenue_driver_analysis.  With no product at all the bar chart may raise,
\* and top_20_pct / len(product_revenue) is 0 / 0, which raises or yields NaN
\* depending on the integer type count() returns.
RevenueDriver ==
    /\ pc = "revenue"
    /\ IF RevenueGuard(df_cols)
       THEN \E pr \in SortValuesDesc(GroupSum(df, "Product", "TotalAmount")) :
            /\ product_revenue' = pr
            /\ \E outcome \in (IF pr = <<>> THEN {"chart_raises", "division_raises", "ok"}
                                            ELSE {"ok"}) :
                  IF outcome = "chart_raises"
                  THEN /\ out' = out \o <<"banner_revenue", "top_products">>
                       /\ pc' = "failed"
                       /\ UNCHANGED <<files, top_20_pct>>
                  ELSE /\ files' = Append(files,
                                      Saved(ProductChartFile, "revenue"))
                       /\ top_20_pct' = <<ParetoCount(pr)>>
                       /\ IF outcome = "division_raises"
                          THEN /\ out' = out \o <<"banner_revenue", "top_products">>
                               /\ pc' = "failed"
                          ELSE /\ out' = out \o <<"banner_revenue", "top_products", "pareto">>
                               /\ pc' = AfterStep("revenue")
       ELSE /\ out' = Append(out, "banner_revenue")
            /\ pc' = AfterStep("revenue")
            /\ UNCHANGED <<files, product_revenue, top_20_pct>>
    /\ UNCHANGED <<csv_cols, csv_rows, other_numeric, df_cols, df, monthly_sales,
                   best_month, worst_month, customer_freq, customer_spending>>

\* A text column whose cells are all empty is read as float64.
AllMissing(rows, c) == \A i \in DOMAIN rows : rows[i][c] = NA

\* len(df.select_dtypes(include=[np.number]).columns), cols being the columns
\* of the file.  A file without rows gives every column of the file the object
\* dtype; the calendar columns made by load_data are numeric in any case.
NumericCount(cols, rows, n) ==
    IF HasTimestamp(cols)
    THEN Cardinality(DerivedCols)
         + (IF rows = <<>> THEN 0
            ELSE n + Cardinality(cols \cap {"TotalAmount"})
                 + Cardinality({c \in cols \cap {"CustomerID", "Product"} :
                                   AllMissing(rows, c)}))
    ELSE IF rows = <<>> THEN 0
         ELSE n + Cardinality(cols \cap ({"TotalAmount"} \cup DerivedCols))
              + Cardinality({c \in cols \cap {"CustomerID", "Product"} :
                                AllMissing(rows, c)})

StatGuard(cols, rows, n) == NumericCount(cols, rows, n) > 1

\* statistical_analysis.  The heat map of the correlation matrix of a table
\* without rows may or may not raise.
StatisticalAnalysis ==
    /\ pc = "stat"
    /\ IF StatGuard(csv_cols, df, other_numeric)
       THEN \E drawn \in (IF df = <<>> THEN BOOLEAN ELSE {TRUE}) :
               IF drawn
               THEN /\ files' = Append(files, Saved(CorrelationChartFile, "stat"))
                    /\ out' = out \o <<"banner_stat", "correlation">>
                    /\ pc' = AfterStep("stat")
               ELSE /\ files' = files
                    /\ out' = Append(out, "banner_stat")
                    /\ pc' = "failed"
       ELSE /\ out' = Append(out, "banner_stat")
            /\ pc' = AfterStep("stat")
            /\ files' = files
    /\ UNCHANGED <<csv_cols, csv_rows, other_numeric, df_cols, df, results>>

\* generate_report: the closing banner.
Complete ==
    /\ pc = "complete"
    /\ out' = Append(out, "complete")
    /\ pc' = "insights"
    /\ UNCHANGED <<csv_cols, csv_rows, other_numeric, df_cols, df, files, results>>

\* __main__: the summary printed after generate_report returns.
KeyInsights ==
    /\ pc = "insights"
    /\ out' = Append(out, "insights")
    /\ pc' = "done"
    /\ UNCHANGED <<csv_cols, csv_rows, other_numeric, df_cols, df, files, results>>

Next ==
    \/ LoadData
    \/ GenerateReport
    \/ BasicStatistics
    \/ SalesTrends
    \/ CustomerBehavior
    \/ RevenueDriver
    \/ StatisticalAnalysis
    \/ Complete
    \/ KeyInsights

(***************************************************************************)
(* Initial states: the input file.                                         *)
(***************************************************************************)
\* A file may itself carry columns named like the calendar columns.
FileCols == {"InvoiceDate", "CustomerID", "Product", "TotalAmount"} \cup DerivedCols

\* The rows a file with the columns cols can hold, cell domains given.
RowsOf(cols, dates, months, customers, products, amounts) ==
    [InvoiceDate : IF "InvoiceDate" \in cols THEN Cells(dates) ELSE {NA},
     Month       : IF "Month" \in cols THEN Cells(months) ELSE {NA},
     CustomerID  : IF "CustomerID" \in cols THEN Cells(customers) ELSE {NA},
     Product     : IF "Product" \in cols THEN Cells(products) ELSE {NA},
     TotalAmount : IF "TotalAmount" \in cols THEN amounts ELSE {NA}]

SeqsUpTo(S, n) == UNION {[1..k -> S] : k \in 0..n}

Start(cols, rows, n) ==
    /\ csv_cols = cols
    /\ csv_rows = rows
    /\ other_numeric = n
    /\ df_cols = {}
    /\ df = <<>>
    /\ pc = "load"
    /\ out = <<>>
    /\ files = <<>>
    /\ monthly_sales = <<>>
    /\ best_month = <<>>
    /\ worst_month = <<>>
    /\ customer_freq = <<>>
    /\ customer_spending = <<>>
    /\ product_revenue = <<>>
    /\ top_20_pct = <<>>

\* Every combination of columns, over small tables.
Init ==
    \E cols \in SUBSET FileCols, n \in 0..MaxOther :
    \E rows \in SeqsUpTo(RowsOf(cols, {<<2024, 1, 31>>}, {1}, {"A"}, {"P"}, {<<1>>}),
                         MaxReportRows) :
        Start(cols, rows, n)

Spec == Init /\ [][Next]_vars

\* Tables of timestamp and amount.
InitTrends ==
    \E rows \in SeqsUpTo(RowsOf({"InvoiceDate", "TotalAmount"}, Dates, {}, {}, {},
                                TrendAmounts),
                         MaxRows) :
        Start({"InvoiceDate", "TotalAmount"}, rows, 0)

SpecTrends == InitTrends /\ [][Next]_vars

\* Tables of customer and amount.
InitCustomer ==
    \E cols \in {{"CustomerID"}, {"CustomerID", "TotalAmount"}} :
    \E rows \in SeqsUpTo(RowsOf(cols, {}, {}, Customers, {}, Amounts),
                         MaxRows) :
        Start(cols, rows, 0)

SpecCustomer == InitCustomer /\ [][Next]_vars

\* Tables of product and amount.
InitRevenue ==
    \E rows \in SeqsUpTo(RowsOf({"Product", "TotalAmount"}, {}, {}, {}, Products, Amounts),
                         MaxRows) :
        Start({"Product", "TotalAmount"}, rows, 0)

SpecRevenue == InitRevenue /\ [][Next]_vars

(***************************************************************************)
(* Properties                                                              *)
(***************************************************************************)
Printed(e) == e \in Range(out)

\* Revenue of the n highest-revenue products.
TopRevenue(n) == SumSeq(SubSeq(Values(product_revenue), 1, n))

TotalRevenue == SumSeq(Values(product_revenue))

\* C1: once the 80/20 line is printed, the revenue of the top N products is at
\* most 80% of the total and, unless N is the number of products, the revenue
\* of the top N + 1 products is more than 80% of the total.
C1_ParetoBracketsEighty ==
    Printed("pareto") =>
        LET N == top_20_pct[1] IN
        /\ TopRevenue(N) * 100 <= 80 * TotalRevenue
        /\ N # Len(product_revenue) => TopRevenue(N + 1) * 100 > 80 * TotalRevenue

\* The same bracket restricted to tables whose total revenue is positive.
ParetoBracketsEightyWhenPositive ==
    (Printed("pareto") /\ TotalRevenue > 0) =>
        LET N == top_20_pct[1] IN
        /\ TopRevenue(N) * 100 <= 80 * TotalRevenue
        /\ N # Len(product_revenue) => TopRevenue(N + 1) * 100 > 80 * TotalRevenue

\* C2: once the 80/20 line is printed, N is the least number of top-ranked
\* products whose revenue reaches 80% of the total.
C2_ParetoIsMinimumReachingEighty ==
    Printed("pareto") =>
        LET N == top_20_pct[1] IN
        /\ TopRevenue(N) * 100 >= 80 * TotalRevenue
        /\ \A n \in 0..Len(product_revenue) :
              TopRevenue(n) * 100 >= 80 * TotalRevenue => N <= n

\* C3: once the monthly series is computed, its values add up to the sum of
\* TotalAmount over all rows of the table.
C3_MonthlySeriesKeepsEveryRow ==
    Printed("banner_trends") =>
        SumSeq(Values(monthly_sales)) = SumCells(Column(df, "TotalAmount"))

\* C4: the reported best (worst) month carries the maximum (minimum) of the
\* monthly series, and among the months carrying it, it is the smallest.
C4_BestWorstMonth ==
    Printed("best_month") =>
        /\ best_month \in Range(monthly_sales)
        /\ worst_month \in Range(monthly_sales)
        /\ \A e \in Range(monthly_sales) :
              /\ e[2] <= best_month[2]
              /\ e[2] >= worst_month[2]
              /\ e[2] = best_month[2] => best_month[1] <= e[1]
              /\ e[2] = worst_month[2] => worst_month[1] <= e[1]

\* Two months tie for the maximum, a third carries a smaller sum.
C4_Witness ==
    /\ Printed("worst_month")
    /\ \E e \in Range(monthly_sales) : e[2] = best_month[2] /\ e[1] # best_month[1]
    /\ best_month[2] # worst_month[2]

BannerOf(step) ==
    CASE step = "basic"    -> "banner_overview"
      [] step = "trends"   -> "banner_trends"
      [] step = "customer" -> "banner_customer"
      [] step = "revenue"  -> "banner_revenue"
      [] step = "stat"     -> "banner_stat"

ReportsOf(step) ==
    CASE step = "basic"    -> {"overview"}
      [] step = "trends"   -> {"monthly_sales", "best_month", "worst_month"}
      [] step = "customer" -> {"customer_freq", "customer_spending"}
      [] step = "revenue"  -> {"top_products", "pareto"}
      [] step = "stat"     -> {"correlation"}

ResultsOf(step) ==
    CASE step = "basic"    -> <<>>
      [] step = "trends"   -> <<monthly_sales, best_month, worst_month>>
      [] step = "customer" -> <<customer_freq, customer_spending>>
      [] step = "revenue"  -> <<product_revenue, top_20_pct>>
      [] step = "stat"     -> <<>>

\* The columns a step needs, as the documentation of the step states them.
Requires(step) ==
    CASE step = "trends"   -> {"TotalAmount", "Month"} \subseteq df_cols
      [] step = "customer" -> "CustomerID" \in df_cols
      [] step = "revenue"  -> {"Product", "TotalAmount"} \subseteq df_cols
      [] step = "stat"     -> NumericCount(csv_cols, df, other_numeric) >= 2

Entered(step) == Printed(BannerOf(step))

FilesOf(step) == {i \in DOMAIN files : files[i].step = step}

\* The step left no trace but its banner.
Silent(step) ==
    /\ \A e \in ReportsOf(step) : ~Printed(e)
    /\ FilesOf(step) = {}
    /\ \A i \in DOMAIN ResultsOf(step) : ResultsOf(step)[i] = <<>>

Guarded == <<"trends", "customer", "revenue", "stat">>

\* The run ended in this step.
FailedIn(k) ==
    /\ pc = "failed"
    /\ Entered(Guarded[k])
    /\ k < Len(Guarded) => ~Entered(Guarded[k + 1])

\* C5: a step that has been entered ran its body exactly when its own columns
\* are there; without them it leaves no report, no chart and no failure.  With
\* CustomerID and without TotalAmount the frequencies are reported and neither
\* the spending nor its histogram is produced.
C5_StepsGuardOnOwnColumns ==
    /\ \A k \in DOMAIN Guarded :
          Entered(Guarded[k]) =>
             IF Requires(Guarded[k])
             THEN ~Silent(Guarded[k]) \/ FailedIn(k)
             ELSE Silent(Guarded[k]) /\ ~FailedIn(k)
    /\ (Entered("customer") /\ "CustomerID" \in df_cols /\ "TotalAmount" \notin df_cols) =>
          /\ Printed("customer_freq")
          /\ ~Printed("customer_spending")
          /\ customer_spending = <<>>
          /\ FilesOf("customer") = {}
          /\ ~FailedIn(2)

\* A finished run over a table with customers and no amounts: the trend and
\* revenue steps were skipped, the customer step reported frequencies only.
C5_Witness ==
    /\ pc = "done"
    /\ "CustomerID" \in df_cols
    /\ "TotalAmount" \notin df_cols
    /\ {"InvoiceDate", "Product"} \subseteq df_cols
    /\ customer_freq # <<>>
    /\ Silent("trends")
    /\ Silent("revenue")
    /\ FilesOf("stat") # {}

\* C6: over a table without rows no step ends the run.
C6_EmptyTableRunCompletes ==
    (csv_rows = <<>> /\ Printed("banner_report")) => pc # "failed"

AllOptionalColumns ==
    {"InvoiceDate", "CustomerID", "Product", "TotalAmount"} \subseteq csv_cols

FileNames == {files[i].file : i \in DOMAIN files}

OneWriterEach ==
    \A i, j \in DOMAIN files :
        i # j => files[i].file # files[j].file /\ files[i].step # files[j].step

\* C7 as stated: a finished run over a table with every optional column has
\* written five images, each by one step.
C7_FiveImages ==
    (pc = "done" /\ AllOptionalColumns) =>
        Cardinality(FileNames) = 5 /\ OneWriterEach

\* C7 amended: a finished run over a table with every optional column has
\* written the four images of the four charting steps, each by one step.
C7_FourImages ==
    (pc = "done" /\ AllOptionalColumns) =>
        /\ FileNames = {"results/monthly_sales_trend.png",
                        "results/customer_spending_dist.png",
                        "results/top_products_revenue.png",
                        "results/correlation_matrix.png"}
        /\ Len(files) = 4
        /\ OneWriterEach

C7_Witness ==
    /\ pc = "done"
    /\ AllOptionalColumns
    /\ {files[i].step : i \in DOMAIN files} = {"trends", "customer", "revenue", "stat"}

\* load_data has returned.
Loaded == pc # "load" /\ (pc = "failed" => Printed("banner_report"))

\* C8 as stated: the calendar columns are in the table exactly when the file
\* has InvoiceDate, and without InvoiceDate the trend analyzer finds no Month.
C8_CalendarIffTimestamp ==
    Loaded =>
        /\ (DerivedCols \subseteq df_cols) <=> ("InvoiceDate" \in csv_cols)
        /\ "InvoiceDate" \notin csv_cols =>
              ~("Month" \in df_cols /\ Printed("monthly_sales"))

\* C8 amended: load_data adds the four calendar columns, computed from the
\* timestamp, when the file has InvoiceDate, and otherwise leaves the columns
\* and cells of the file as they are.
C8_LoadAddsCalendarOnlyWithTimestamp ==
    Loaded =>
        /\ "InvoiceDate" \in csv_cols =>
              /\ df_cols = csv_cols \cup {"Year", "Month", "Day", "DayOfWeek"}
              /\ \A i \in DOMAIN df :
                    LET t == csv_rows[i].InvoiceDate IN
                    IF t = NA
                    THEN df[i].Year = NA /\ df[i].Month = NA /\ df[i].Day = NA
                    ELSE /\ <<df[i].Year[1], df[i].Month[1], df[i].Day[1]>> = t[1]
                         /\ df[i].DayOfWeek[1] \in 0..6
        /\ "InvoiceDate" \notin csv_cols =>
              /\ df_cols = csv_cols
              /\ \A i \in DOMAIN df : df[i].Month = csv_rows[i].Month
        /\ Len(df) = Len(csv_rows)

\* A file with its own Month column and no InvoiceDate, used by the trend step.
C8_Witness ==
    /\ Loaded
    /\ "InvoiceDate" \notin csv_cols
    /\ "Month" \in df_cols
    /\ ~(DerivedCols \subseteq df_cols)
    /\ Printed("best_month")

CustomerIds == {df[i].CustomerID[1] : i \in {j \in DOMAIN df : df[j].CustomerID # NA}}

RowsOfCustomer(k) == {i \in DOMAIN df : df[i].CustomerID = <<k>>}

RECURSIVE SpendOver(_)
SpendOver(S) ==
    IF S = {} THEN 0
    ELSE LET i == CHOOSE x \in S : TRUE IN
         (IF df[i].TotalAmount = NA THEN 0 ELSE df[i].TotalAmount[1]) + SpendOver(S \ {i})

Descending(s) == \A i, j \in DOMAIN s : i < j => s[i][2] >= s[j][2]

ListsEachOnce(s, ids) ==
    Len(s) = Cardinality(ids) /\ {s[i][1] : i \in DOMAIN s} = ids

\* C9: the frequency list gives every customer the number of its rows, in
\* descending order; the spending list gives every customer the sum of its
\* amounts, in descending order, a top spender first.
C9_CustomerFrequencyAndSpend ==
    Printed("customer_freq") =>
        /\ ListsEachOnce(customer_freq, CustomerIds)
        /\ \A e \in Range(customer_freq) : e[2] = Cardinality(RowsOfCustomer(e[1]))
        /\ Descending(customer_freq)
        /\ "TotalAmount" \in df_cols =>
              /\ Printed("customer_spending")
              /\ ListsEachOnce(customer_spending, CustomerIds)
              /\ \A e \in Range(customer_spending) : e[2] = SpendOver(RowsOfCustomer(e[1]))
              /\ Descending(customer_spending)
              /\ \A k \in CustomerIds :
                    SpendOver(RowsOfCustomer(k)) <= customer_spending[1][2]

\* Customers A, A, B with amounts 1, 2, 0.
C9_Witness ==
    /\ Column(df, "CustomerID") = << <<"A">>, <<"A">>, <<"B">> >>
    /\ Column(df, "TotalAmount") = << <<1>>, <<2>>, <<0>> >>
    /\ customer_freq = << <<"A", 2>>, <<"B", 1>> >>
    /\ customer_spending = << <<"A", 3>>, <<"B", 0>> >>
    /\ customer_spending[1][1] = "A"
    /\ pc = "done"

Banners == <<"banner_overview", "banner_trends", "banner_customer",
             "banner_revenue", "banner_stat">>

Sections == <<"basic", "trends", "customer", "revenue", "stat">>

Pos(e) == CHOOSE i \in DOMAIN out : out[i] = e

Once(e) == Cardinality({i \in DOMAIN out : out[i] = e}) <= 1

ReportOrder ==
    /\ \A e \in Range(out) : Once(e)
    /\ \A k \in DOMAIN Banners :
          /\ Printed(Banners[k]) =>
                /\ Printed("banner_report") /\ Pos("banner_report") < Pos(Banners[k])
                /\ k > 1 => Printed(Banners[k - 1]) /\ Pos(Banners[k - 1]) < Pos(Banners[k])
          /\ \A e \in ReportsOf(Sections[k]) :
                Printed(e) =>
                   /\ Printed(Banners[k]) /\ Pos(Banners[k]) < Pos(e)
                   /\ (k < Len(Banners) /\ Printed(Banners[k + 1])) =>
                         Pos(e) < Pos(Banners[k + 1])
    /\ Printed("complete") =>
          /\ \A k \in DOMAIN Banners : Printed(Banners[k])
          /\ \A e \in Range(out) \ {"complete", "insights"} : Pos(e) < Pos("complete")
          /\ pc \in {"insights", "done"}
    /\ pc = "failed" => ~Printed("complete")
    /\ pc \in {"basic", "trends", "customer", "revenue", "stat"} =>
          /\ ~Entered(pc)
          /\ \A k \in DOMAIN Sections :
                Sections[k] = pc /\ k > 1 => Entered(Sections[k - 1])

\* C10: the five sections are printed in the fixed order, a section's banner
\* before its output and its output before the next banner; the completion
\* banner follows all five; a run that has failed prints nothing more.
C10_FixedOrder ==
    /\ []ReportOrder
    /\ [][pc = "failed" => pc' = "failed" /\ out' = out /\ files' = files]_vars

C10_Witness ==
    /\ pc = "done"
    /\ \A k \in DOMAIN Sections :
          \A e \in ReportsOf(Sections[k]) : Printed(e)

====
